---- MODULE Spec2Model ----
(***************************************************************************)
(* A model of mc_puppetmaster.                                             *)
(*                                                                         *)
(*  - Spec / FairSpec: the process supervisor of puppet/src/puppet.rs:     *)
(*    Puppet::start with its two mirror loops, command(), wait(), kill(),  *)
(*    the three tokio mutexes, the child process and the host's stdio.     *)
(*  - ParseSpec: the console-line classifier of puppet/src/parsing.rs,     *)
(*    ConsoleLine::parse_from, computed on strings by a backtracking       *)
(*    matcher with the leftmost-first semantics of the regex crate.        *)
(*  - StripSpec: strip_ansi_escapes of puppet/src/parsing.rs on every      *)
(*    buffer of a few bytes.                                               *)
(*  - LifeSpec / FairLifeSpec: the supervisor with callers of wait() and   *)
(*    kill(), on devices that do not fail.                                 *)
(*  - RunSpec: the loop of puppetmaster/src/main.rs that launches the      *)
(*    server and restarts it at Config::restart_time.                      *)
(***************************************************************************)
EXTENDS Integers, Sequences, FiniteSets, TLC

VARIABLES
  locks,       \* Puppet's three mutexes: lock name -> holding task, or "free"
  loop,        \* the two mirror loops: "in"/"out" -> [pc, res, cause]
  buf,         \* each loop's `buf: String`
  wIn,         \* bytes of buf that the input loop's write_all has written so far
  cmd,         \* each command() caller -> [pc, w]; w = bytes written so far
  startRes,    \* outcome of Puppet::start: "pending", "ok", "err_in", "err_out"
  pcWait,      \* the wait() caller
  pcKill,      \* the kill() caller
  childAlive,  \* the child runs, and so holds its ends of both pipes open
  childIn,     \* bytes that arrived at the child's stdin, each tagged with its writer
  childPipe,   \* lines the child wrote to its stdout that were not read yet
  emitted,     \* every line the child wrote to its stdout, in order
  readLog,     \* lines the output loop read
  hostOut,     \* lines written to the host's stdout
  sinkLog,     \* texts handed to EventHandler::console_line
  hostTyped,   \* number of lines read from the host's stdin
  hostClosed,  \* the host's stdin is at end-of-stream
  line,        \* ParseSpec: the console line given to parse_from
  stripped,    \* ParseSpec: parse_from's `line` after strip_ansi_escapes
  rule,        \* ParseSpec: the branch of parse_from's chain that is tried next
  event,       \* ParseSpec: what parse_from returned for it
  clock,       \* RunSpec: the time, in minutes since midnight of day 0
  restart_time,\* RunSpec: Config::restart_time, in minutes since midnight
  run,         \* RunSpec: run()'s loop -> [pc, now, remaining, launches, via, decision]
  restart,     \* RunSpec: the AtomicFlag `restart` of the current iteration
  timer,       \* RunSpec: wait_and_restart -> [i, pc]; i = index into `warnings`
  server       \* RunSpec: the launched server -> [alive, stop]; stop = "stop" was written

ioVars    == <<locks, loop, buf, wIn, cmd, startRes, pcWait, pcKill, childAlive,
               childIn, childPipe, emitted, readLog, hostOut, sinkLog,
               hostTyped, hostClosed>>
parseVars == <<line, stripped, rule, event>>
runVars   == <<clock, restart_time, run, restart, timer, server>>
vars      == <<ioVars, parseVars, runVars>>

-----------------------------------------------------------------------------
(* Bounds of the model *)

\* external callers of command() (the event sink is one more caller)
MaxCmds == 1
\* lines the host operator types
MaxHostLines == 1
\* lines the child prints
MaxChildLines == 2

-----------------------------------------------------------------------------
(* Text helpers (std::str) *)

\* char::is_whitespace on the characters the model uses
WhiteSpace == {" ", "\t", "\n", "\r", "\f"}

CharAt(s, i) == SubSeq(s, i, i)

\* the characters of a text
Chars(s) == {CharAt(s, k) : k \in 1..Len(s)}

\* str::trim_end
RECURSIVE TrimEnd(_)
TrimEnd(s) ==
  IF Len(s) > 0 /\ CharAt(s, Len(s)) \in WhiteSpace
    THEN TrimEnd(SubSeq(s, 1, Len(s) - 1))
    ELSE s

\* str::trim_start
RECURSIVE TrimStart(_)
TrimStart(s) ==
  IF Len(s) > 0 /\ CharAt(s, 1) \in WhiteSpace
    THEN TrimStart(SubSeq(s, 2, Len(s)))
    ELSE s

\* str::trim
Trim(s) == TrimStart(TrimEnd(s))

-----------------------------------------------------------------------------
(* The supervisor: tasks, locks and the environment's inputs *)

Locks == {"child", "child_stdout", "child_stdin"}

CmdNames == <<"c1", "c2", "c3">>
Cmds     == {CmdNames[i] : i \in 1..MaxCmds}
Callers  == Cmds \cup {"sink"}

\* the text each caller passes to command(): distinct texts, some padded
CmdArg == [c \in {"c1", "c2", "c3", "sink"} |->
             CASE c = "c1"   -> " a "
               [] c = "c2"   -> "b\n"
               [] c = "c3"   -> "c"
               [] c = "sink" -> "s"]

\* what the host operator may type; "y" is a last line cut by end-of-stream
HostLines == {"h\n", "y"}

\* what the child may print; "b" is a last line cut by end-of-stream
ChildLines == {"a \r\n", "b"}

\* the mutex each operation takes
InLoopLock_outputChannel == "child_stdout"
InLoopLock  == "child_stdin"
OutLoopLock == "child_stdout"
CommandLock_processHandle == "child"
CommandLock_outputChannel == "child_stdout"
CommandLock == "child_stdin"
WaitLock_inputChannel == "child_stdin"
WaitLock    == "child"
KillLock    == "child"

Free(l) == locks[l] = "free"

\* the locks with every guard owned by one of `tasks` dropped
Released(tasks) == [l \in Locks |-> IF locks[l] \in tasks THEN "free" ELSE locks[l]]

\* as tokio::join! followed by `?`: nothing is returned before both loops ended
TryJoin_awaitsBoth(rIn, rOut) ==
  IF rIn = "running" \/ rOut = "running" THEN "pending"
  ELSE IF rIn = "err" THEN "err_in"
  ELSE IF rOut = "err" THEN "err_out"
  ELSE "ok"

\* tokio::try_join!: the first Err at once, Ok once both are Ok
TryJoin(rIn, rOut) ==
  IF rIn = "err" THEN "err_in"
  ELSE IF rOut = "err" THEN "err_out"
  ELSE IF rIn = "ok" /\ rOut = "ok" THEN "ok"
  ELSE "pending"

Other(l) == IF l = "in" THEN "out" ELSE "in"

\* the tasks whose futures live inside loop l's future
TasksOf(l) == IF l = "out" THEN {"out", "sink"} ELSE {"in"}

IdleCmd == [pc |-> "idle", w |-> 0]

\* run() has not entered its loop; Config::default's restart time, 22:00
RunIdle ==
  /\ clock = 0
  /\ restart_time = 22 * 60
  /\ run = [pc |-> "loop", now |-> 0, remaining |-> 0, launches |-> 0,
            via |-> "none", decision |-> "none"]
  /\ restart = FALSE
  /\ timer = [i |-> 1, pc |-> "sleep"]
  /\ server = [alive |-> FALSE, stop |-> FALSE]

IoInit ==
  /\ locks = [l \in Locks |-> "free"]
  /\ loop = [l \in {"in", "out"} |->
               [pc |-> IF l = "in" THEN "read" ELSE "lock", res |-> "running", cause |-> "none"]]
  /\ buf = [l \in {"in", "out"} |-> ""]
  /\ wIn = 0
  /\ cmd = [c \in Callers |-> IdleCmd]
  /\ startRes = "pending"
  /\ pcWait = "idle"
  /\ pcKill = "idle"
  /\ childAlive = TRUE
  /\ childIn = <<>>
  /\ childPipe = <<>>
  /\ emitted = <<>>
  /\ readLog = <<>>
  /\ hostOut = <<>>
  /\ sinkLog = <<>>
  /\ hostTyped = 0
  /\ hostClosed = FALSE

\* Loop l returns r (its last I/O condition being `cause`), and try_join! is
\* polled: on an Err it returns at once and drops the other loop's future,
\* and with it the guards and the sink call that future holds.
LoopReturns(l, r, cause) ==
  LET ended  == [loop EXCEPT ![l] = [pc |-> "done", res |-> r, cause |-> cause]]
      joined == TryJoin(ended["in"].res, ended["out"].res)
      drop   == joined \in {"err_in", "err_out"} /\ ended[Other(l)].res = "running"
      gone   == IF drop THEN TasksOf(l) \cup TasksOf(Other(l)) ELSE TasksOf(l)
  IN  /\ loop' = IF drop
                   THEN [ended EXCEPT ![Other(l)] =
                           [pc |-> "done", res |-> "cancelled", cause |-> "dropped"]]
                   ELSE ended
      /\ startRes' = joined
      /\ locks' = Released(gone)
      /\ cmd' = IF "sink" \in gone /\ cmd["sink"].pc \in {"lock", "write", "nl"}
                  THEN [cmd EXCEPT !["sink"].pc = "cancelled"]
                  ELSE cmd

\* the bytes from..to of `text`, tagged as line n of writer w
Bytes(w, n, text, from, to) ==
  [k \in 1..(to - from + 1) |->
     [w |-> w, n |-> n, i |-> from + k - 1, len |-> Len(text), ch |-> CharAt(text, from + k - 1)]]

-----------------------------------------------------------------------------
(* Puppet::start_dispatching_stdin *)

InRunning(p) == loop["in"].pc = p /\ loop["in"].res = "running"

\* read_line returns Ok(n), n > 0: the next host line is appended to buf
InReadLine ==
  /\ InRunning("read")
  /\ ~hostClosed
  /\ hostTyped < MaxHostLines
  /\ \E l \in HostLines :
       /\ buf' = [buf EXCEPT !["in"] = buf["in"] \o l]
       /\ hostClosed' = (CharAt(l, Len(l)) # "\n")
  /\ hostTyped' = hostTyped + 1
  /\ loop' = [loop EXCEPT !["in"].pc = "lock"]
  /\ UNCHANGED <<parseVars, runVars, locks, wIn, cmd, startRes, pcWait, pcKill, childAlive, childIn,
                 childPipe, emitted, readLog, hostOut, sinkLog>>

\* read_line returns Ok(0): break, and the loop returns Ok(())
InReadEof ==
  /\ InRunning("read")
  /\ hostClosed' = TRUE
  /\ LoopReturns("in", "ok", "eof")
  /\ UNCHANGED <<parseVars, runVars, buf, wIn, pcWait, pcKill, childAlive, childIn, childPipe, emitted,
                 readLog, hostOut, sinkLog, hostTyped>>

\* read_line returns Err(Interrupted): continue
InReadInterrupted ==
  /\ InRunning("read")
  /\ ~hostClosed
  /\ UNCHANGED vars

\* read_line returns any other Err: return Err(e)
InReadError ==
  /\ InRunning("read")
  /\ LoopReturns("in", "err", "read_error")
  /\ UNCHANGED <<parseVars, runVars, buf, wIn, pcWait, pcKill, childAlive, childIn, childPipe, emitted,
                 readLog, hostOut, sinkLog, hostTyped, hostClosed>>

\* self.child_stdin.lock().await
InLock ==
  /\ InRunning("lock")
  /\ Free(InLoopLock)
  /\ locks' = [locks EXCEPT ![InLoopLock] = "in"]
  /\ loop' = [loop EXCEPT !["in"].pc = "write"]
  /\ wIn' = 0
  /\ UNCHANGED <<parseVars, runVars, buf, cmd, startRes, pcWait, pcKill, childAlive, childIn, childPipe,
                 emitted, readLog, hostOut, sinkLog, hostTyped, hostClosed>>

\* write_all(buf): the pipe takes k more bytes; after the last one buf is
\* cleared and the guard dropped at the end of the iteration
InWrite ==
  /\ InRunning("write")
  /\ childAlive
  /\ \E k \in 1..(Len(buf["in"]) - wIn) :
       /\ childIn' = childIn \o Bytes("in", hostTyped, buf["in"], wIn + 1, wIn + k)
       /\ IF wIn + k = Len(buf["in"])
            THEN /\ wIn' = 0
                 /\ buf' = [buf EXCEPT !["in"] = ""]
                 /\ locks' = Released({"in"})
                 /\ loop' = [loop EXCEPT !["in"].pc = "read"]
            ELSE /\ wIn' = wIn + k
                 /\ UNCHANGED <<parseVars, runVars, buf, locks, loop>>
  /\ UNCHANGED <<parseVars, runVars, cmd, startRes, pcWait, pcKill, childAlive, childPipe, emitted,
                 readLog, hostOut, sinkLog, hostTyped, hostClosed>>

\* write_all returns Err(BrokenPipe): break, and the loop returns Ok(())
InWriteBrokenPipe ==
  /\ InRunning("write")
  /\ ~childAlive
  /\ LoopReturns("in", "ok", "broken_pipe_write")
  /\ UNCHANGED <<parseVars, runVars, buf, wIn, pcWait, pcKill, childAlive, childIn, childPipe, emitted,
                 readLog, hostOut, sinkLog, hostTyped, hostClosed>>

\* write_all returns any other Err: return Err(e)
InWriteError ==
  /\ InRunning("write")
  /\ LoopReturns("in", "err", "write_error")
  /\ UNCHANGED <<parseVars, runVars, buf, wIn, pcWait, pcKill, childAlive, childIn, childPipe, emitted,
                 readLog, hostOut, sinkLog, hostTyped, hostClosed>>

-----------------------------------------------------------------------------
(* Puppet::start_dispatching_stdout *)

OutRunning(p) == loop["out"].pc = p /\ loop["out"].res = "running"

\* a loop body that calls the handler before it mirrors the line
OutStepAfter_sinkFirst(p) ==
  CASE p = "read"  -> "sink"
    [] p = "sink"  -> "write"
    [] p = "write" -> "read"

\* the step of the loop body that follows step p
OutStepAfter(p) ==
  CASE p = "read"  -> "write"
    [] p = "write" -> "sink"
    [] p = "sink"  -> "read"

\* the text handed to the event handler
SinkArg(b) == TrimEnd(b)

\* self.child_stdout.lock().await: the guard lives until the loop returns
OutLock ==
  /\ OutRunning("lock")
  /\ Free(OutLoopLock)
  /\ locks' = [locks EXCEPT ![OutLoopLock] = "out"]
  /\ loop' = [loop EXCEPT !["out"].pc = "read"]
  /\ UNCHANGED <<parseVars, runVars, buf, wIn, cmd, startRes, pcWait, pcKill, childAlive, childIn,
                 childPipe, emitted, readLog, hostOut, sinkLog, hostTyped, hostClosed>>

\* read_line returns Ok(n), n > 0: the next line of the pipe is appended to buf
OutReadLine ==
  /\ OutRunning("read")
  /\ childPipe # <<>>
  /\ buf' = [buf EXCEPT !["out"] = buf["out"] \o Head(childPipe)]
  /\ readLog' = Append(readLog, Head(childPipe))
  /\ childPipe' = Tail(childPipe)
  /\ loop' = [loop EXCEPT !["out"].pc = OutStepAfter("read")]
  /\ UNCHANGED <<parseVars, runVars, locks, wIn, cmd, startRes, pcWait, pcKill, childAlive, childIn,
                 emitted, hostOut, sinkLog, hostTyped, hostClosed>>

\* read_line returns Ok(0): break, and the loop returns Ok(())
OutReadEof ==
  /\ OutRunning("read")
  /\ childPipe = <<>>
  /\ ~childAlive
  /\ LoopReturns("out", "ok", "eof")
  /\ UNCHANGED <<parseVars, runVars, buf, wIn, pcWait, pcKill, childAlive, childIn, childPipe, emitted,
                 readLog, hostOut, sinkLog, hostTyped, hostClosed>>

\* read_line returns Err(Interrupted): continue
OutReadInterrupted ==
  /\ OutRunning("read")
  /\ childAlive
  /\ UNCHANGED vars

\* read_line returns Err(BrokenPipe): break, and the loop returns Ok(())
OutReadBrokenPipe ==
  /\ OutRunning("read")
  /\ ~childAlive
  /\ LoopReturns("out", "ok", "broken_pipe_read")
  /\ UNCHANGED <<parseVars, runVars, buf, wIn, pcWait, pcKill, childAlive, childIn, childPipe, emitted,
                 readLog, hostOut, sinkLog, hostTyped, hostClosed>>

\* read_line returns any other Err: return Err(e)
OutReadError ==
  /\ OutRunning("read")
  /\ LoopReturns("out", "err", "read_error")
  /\ UNCHANGED <<parseVars, runVars, buf, wIn, pcWait, pcKill, childAlive, childIn, childPipe, emitted,
                 readLog, hostOut, sinkLog, hostTyped, hostClosed>>

\* process_stdout.write_all(buf).await? returns Ok(())
OutWrite ==
  /\ OutRunning("write")
  /\ hostOut' = Append(hostOut, buf["out"])
  /\ loop' = [loop EXCEPT !["out"].pc = OutStepAfter("write")]
  /\ UNCHANGED <<parseVars, runVars, locks, buf, wIn, cmd, startRes, pcWait, pcKill, childAlive, childIn,
                 childPipe, emitted, readLog, sinkLog, hostTyped, hostClosed>>

\* process_stdout.write_all(buf).await? returns Err(e): `?` returns it,
\* whatever its kind; cause tells BrokenPipe from the other kinds
OutWriteError ==
  /\ OutRunning("write")
  /\ \E cause \in {"broken_pipe_write", "write_error"} :
       LoopReturns("out", "err", cause)
  /\ UNCHANGED <<parseVars, runVars, buf, wIn, pcWait, pcKill, childAlive, childIn, childPipe, emitted,
                 readLog, hostOut, sinkLog, hostTyped, hostClosed>>

\* event_handler.console_line(self, buf.trim_end()).await, for a handler that
\* returns without calling back; then buf.clear()
OutSinkPlain ==
  /\ OutRunning("sink")
  /\ sinkLog' = Append(sinkLog, SinkArg(buf["out"]))
  /\ buf' = [buf EXCEPT !["out"] = ""]
  /\ loop' = [loop EXCEPT !["out"].pc = OutStepAfter("sink")]
  /\ UNCHANGED <<parseVars, runVars, locks, wIn, cmd, startRes, pcWait, pcKill, childAlive, childIn,
                 childPipe, emitted, readLog, hostOut, hostTyped, hostClosed>>

\* the same, for a handler that calls puppet.command() and awaits it
OutSinkCommand ==
  /\ OutRunning("sink")
  /\ sinkLog' = Append(sinkLog, SinkArg(buf["out"]))
  /\ cmd' = [cmd EXCEPT !["sink"] = [pc |-> "lock", w |-> 0]]
  /\ loop' = [loop EXCEPT !["out"].pc = "handler"]
  /\ UNCHANGED <<parseVars, runVars, locks, buf, wIn, startRes, pcWait, pcKill, childAlive, childIn,
                 childPipe, emitted, readLog, hostOut, hostTyped, hostClosed>>

-----------------------------------------------------------------------------
(* Puppet::command *)

\* command.as_ref().trim()
CmdText(c) == Trim(CmdArg[c])

\* the line number the bytes of caller c are tagged with
CmdLine(c) == IF c = "sink" THEN Len(sinkLog) ELSE 1

\* command() returns r to caller c; the sink's handler then returns too, and
\* the output loop goes on with buf.clear()
CmdReturns(c, r) ==
  /\ locks' = Released({c})
  /\ IF c = "sink"
       THEN /\ cmd' = [cmd EXCEPT ![c] = IdleCmd]
            /\ loop' = [loop EXCEPT !["out"].pc = OutStepAfter("sink")]
            /\ buf' = [buf EXCEPT !["out"] = ""]
       ELSE /\ cmd' = [cmd EXCEPT ![c] = [pc |-> r, w |-> 0]]
            /\ UNCHANGED <<parseVars, runVars, loop, buf>>

\* a task of the program calls puppet.command(text)
CmdCall(c) ==
  /\ c \in Cmds
  /\ cmd[c].pc = "idle"
  /\ cmd' = [cmd EXCEPT ![c].pc = "lock"]
  /\ UNCHANGED <<parseVars, runVars, locks, loop, buf, wIn, startRes, pcWait, pcKill, childAlive, childIn,
                 childPipe, emitted, readLog, hostOut, sinkLog, hostTyped, hostClosed>>

\* self.child_stdin.lock().await
CmdLock(c) ==
  /\ cmd[c].pc = "lock"
  /\ Free(CommandLock)
  /\ locks' = [locks EXCEPT ![CommandLock] = c]
  /\ cmd' = [cmd EXCEPT ![c] = [pc |-> "write", w |-> 0]]
  /\ UNCHANGED <<parseVars, runVars, loop, buf, wIn, startRes, pcWait, pcKill, childAlive, childIn,
                 childPipe, emitted, readLog, hostOut, sinkLog, hostTyped, hostClosed>>

\* lock.write_all(command): the pipe takes k more bytes
CmdWrite(c) ==
  /\ cmd[c].pc = "write"
  /\ childAlive
  /\ \E k \in 1..(Len(CmdText(c)) - cmd[c].w) :
       /\ childIn' = childIn \o
            Bytes(c, CmdLine(c), CmdText(c) \o "\n", cmd[c].w + 1, cmd[c].w + k)
       /\ cmd' = [cmd EXCEPT ![c] =
                    IF cmd[c].w + k = Len(CmdText(c))
                      THEN [pc |-> "nl", w |-> cmd[c].w + k]
                      ELSE [pc |-> "write", w |-> cmd[c].w + k]]
  /\ UNCHANGED <<parseVars, runVars, locks, loop, buf, wIn, startRes, pcWait, pcKill, childAlive,
                 childPipe, emitted, readLog, hostOut, sinkLog, hostTyped, hostClosed>>

\* lock.write_u8(b'\n'), lock.flush() (nothing is buffered), Ok(())
CmdNewline(c) ==
  /\ cmd[c].pc = "nl"
  /\ childAlive
  /\ childIn' = childIn \o
       Bytes(c, CmdLine(c), CmdText(c) \o "\n", cmd[c].w + 1, cmd[c].w + 1)
  /\ CmdReturns(c, "ok")
  /\ UNCHANGED <<parseVars, runVars, wIn, startRes, pcWait, pcKill, childAlive, childPipe, emitted,
                 readLog, hostOut, sinkLog, hostTyped, hostClosed>>

\* write_all or write_u8 returns Err (the child closed its stdin): `?` returns it
CmdWriteError(c) ==
  /\ cmd[c].pc \in {"write", "nl"}
  /\ ~childAlive
  /\ CmdReturns(c, "err")
  /\ UNCHANGED <<parseVars, runVars, wIn, startRes, pcWait, pcKill, childAlive, childIn, childPipe,
                 emitted, readLog, hostOut, sinkLog, hostTyped, hostClosed>>

-----------------------------------------------------------------------------
(* Puppet::wait and Puppet::kill *)

\* wait() is called and gets the process-handle lock: self.child.lock().await;
\* then lock.wait() is pending, the guard held
WaitAcquire ==
  /\ pcWait = "idle"
  /\ Free(WaitLock)
  /\ locks' = [locks EXCEPT ![WaitLock] = "wait"]
  /\ pcWait' = "waiting"
  /\ UNCHANGED <<parseVars, runVars, loop, buf, wIn, cmd, startRes, pcKill, childAlive, childIn,
                 childPipe, emitted, readLog, hostOut, sinkLog, hostTyped, hostClosed>>

\* lock.wait().await resolves once the child has exited
WaitReturns ==
  /\ pcWait = "waiting"
  /\ ~childAlive
  /\ locks' = Released({"wait"})
  /\ pcWait' = "done"
  /\ UNCHANGED <<parseVars, runVars, loop, buf, wIn, cmd, startRes, pcKill, childAlive, childIn,
                 childPipe, emitted, readLog, hostOut, sinkLog, hostTyped, hostClosed>>

\* kill() is called: it waits at self.child.lock().await
KillCall ==
  /\ pcKill = "idle"
  /\ pcKill' = "lock"
  /\ UNCHANGED <<parseVars, runVars, locks, loop, buf, wIn, cmd, startRes, pcWait, childAlive, childIn,
                 childPipe, emitted, readLog, hostOut, sinkLog, hostTyped, hostClosed>>

\* kill() gets the process-handle lock; lock.kill().await; the guard is dropped
Kill ==
  /\ pcKill = "lock"
  /\ Free(KillLock)
  /\ childAlive' = FALSE
  /\ pcKill' = "done"
  /\ UNCHANGED <<parseVars, runVars, locks, loop, buf, wIn, cmd, startRes, pcWait, childIn,
                 childPipe, emitted, readLog, hostOut, sinkLog, hostTyped, hostClosed>>

-----------------------------------------------------------------------------
(* The child process *)

\* the child prints a line
ChildEmit ==
  /\ childAlive
  /\ Len(emitted) < MaxChildLines
  /\ \A i \in 1..Len(emitted) : CharAt(emitted[i], Len(emitted[i])) = "\n"
  /\ \E l \in ChildLines :
       /\ childPipe' = Append(childPipe, l)
       /\ emitted' = Append(emitted, l)
  /\ UNCHANGED <<parseVars, runVars, locks, loop, buf, wIn, cmd, startRes, pcWait, pcKill, childAlive,
                 childIn, readLog, hostOut, sinkLog, hostTyped, hostClosed>>

\* the child exits, which closes its ends of both pipes
ChildExit ==
  /\ childAlive
  /\ childAlive' = FALSE
  /\ UNCHANGED <<parseVars, runVars, locks, loop, buf, wIn, cmd, startRes, pcWait, pcKill, childIn,
                 childPipe, emitted, readLog, hostOut, sinkLog, hostTyped, hostClosed>>

-----------------------------------------------------------------------------
(* The supervisor's specification *)

Init ==
  /\ IoInit
  /\ RunIdle
  /\ line = ""
  /\ stripped = ""
  /\ rule = "strip"
  /\ event = [variant |-> "None"]

\* the steps of the input loop that wait for nothing but the scheduler
InLoopRuns == InLock \/ InWrite \/ InWriteBrokenPipe

\* its steps that the host's stdin or a failing device decides
InLoopInput == InReadLine \/ InReadEof \/ InReadInterrupted \/ InReadError \/ InWriteError

\* the steps of the output loop that wait for nothing but the scheduler
\* (a read of the child's pipe is one once a line or the end of stream is there)
OutLoopRuns ==
  \/ OutLock \/ OutReadLine \/ OutReadEof \/ OutWrite \/ OutSinkPlain \/ OutSinkCommand

\* its steps that a failing device decides
OutLoopFault == OutReadInterrupted \/ OutReadBrokenPipe \/ OutReadError \/ OutWriteError

CmdStep(c) == CmdLock(c) \/ CmdWrite(c) \/ CmdNewline(c) \/ CmdWriteError(c)

\* start() is running; the program calls command(); the child prints and exits
\* (by itself or killed)
Next ==
  \/ InLoopRuns
  \/ InLoopInput
  \/ OutLoopRuns
  \/ OutLoopFault
  \/ \E c \in Callers : CmdCall(c) \/ CmdStep(c)
  \/ ChildEmit
  \/ ChildExit

Spec == Init /\ [][Next]_vars

\* tokio polls every task that can run; nothing makes the host type, the child
\* print or exit, the program call command(), or a device fail
FairSpec ==
  /\ Spec
  /\ WF_vars(InLoopRuns)
  /\ WF_vars(OutLoopRuns)
  /\ \A c \in Callers : WF_vars(CmdStep(c))

\* the same program on devices that do not fail, with callers of wait() and kill()
LifeNext ==
  \/ InLoopRuns
  \/ InReadLine \/ InReadEof
  \/ OutLoopRuns
  \/ \E c \in Callers : CmdCall(c) \/ CmdStep(c)
  \/ WaitAcquire \/ WaitReturns
  \/ KillCall \/ Kill
  \/ ChildEmit
  \/ ChildExit

LifeSpec == Init /\ [][LifeNext]_vars

\* tokio polls every task that can run, the callers of wait() and kill()
\* among them; nothing makes the child exit by itself
FairLifeSpec ==
  /\ LifeSpec
  /\ WF_vars(InLoopRuns)
  /\ WF_vars(OutLoopRuns)
  /\ \A c \in Callers : WF_vars(CmdStep(c))
  /\ WF_vars(WaitReturns)
  /\ WF_vars(Kill)

-----------------------------------------------------------------------------
(* Claims about the supervisor *)

IoTasks == {"in", "out"} \cup Callers

\* the task that holds the lock task t is suspended on, or whose return t
\* awaits; "none" when t is not suspended on another task
WaitsFor(t) ==
  CASE t = "in" /\ InRunning("lock")    -> IF Free(InLoopLock) THEN "none" ELSE locks[InLoopLock]
    [] t = "out" /\ OutRunning("lock")  -> IF Free(OutLoopLock) THEN "none" ELSE locks[OutLoopLock]
    [] t = "out" /\ OutRunning("handler") -> "sink"
    [] t \in Callers /\ cmd[t].pc = "lock" ->
         IF Free(CommandLock) THEN "none" ELSE locks[CommandLock]
    [] OTHER -> "none"

\* following WaitsFor from task t for up to n steps comes to `target`
RECURSIVE WaitChain(_, _, _)
WaitChain(t, target, n) ==
  /\ n > 0
  /\ t \in IoTasks
  /\ WaitsFor(t) # "none"
  /\ (WaitsFor(t) = target \/ WaitChain(WaitsFor(t), target, n - 1))

HeldBy(t) == {l \in Locks : locks[l] = t}

SameLine(e, f) == e.w = f.w /\ e.n = f.n

\* the writer of byte e is inside the write of e's line, e being its last byte so far
InProgress(e) ==
  IF e.w = "in"
    THEN InRunning("write") /\ wIn = e.i /\ hostTyped = e.n
    ELSE cmd[e.w].pc \in {"write", "nl"} /\ cmd[e.w].w = e.i /\ CmdLine(e.w) = e.n

\* the call that wrote byte e ended before the end of e's line: it failed, or
\* its future was dropped
Abandoned(e) ==
  IF e.w = "in"
    THEN loop["in"].pc = "done" /\ loop["in"].cause # "eof" /\ hostTyped = e.n
    ELSE cmd[e.w].pc \in {"err", "cancelled"}

\* C1: the bytes at the child's stdin are a concatenation of lines, each from
\* one command() call or one host line: a byte that is not the first of its
\* line directly follows the byte before it of the same line, a line starts
\* only where the line before it is whole, and every byte is the one its writer
\* sent at that place. The only lines that are not whole are the one being
\* written under the lock, the one cut by the child closing its stdin, and the
\* one whose write was abandoned (a failed call, a dropped future).
C1_LineAtomicity ==
  \A p \in 1..Len(childIn) :
    LET e == childIn[p] IN
      /\ e.i > 1 => /\ p > 1
                    /\ SameLine(childIn[p - 1], e)
                    /\ childIn[p - 1].i = e.i - 1
      /\ (e.i = 1 /\ p > 1) =>
            \/ childIn[p - 1].i = childIn[p - 1].len
            \/ Abandoned(childIn[p - 1])
      /\ (p = Len(childIn) /\ e.i < e.len) =>
            InProgress(e) \/ Abandoned(e) \/ ~childAlive
      /\ IF e.w = "in"
           THEN \E l \in HostLines : e.len = Len(l) /\ e.ch = CharAt(l, e.i)
           ELSE /\ e.len = Len(Trim(CmdArg[e.w])) + 1
                /\ e.ch = CharAt(Trim(CmdArg[e.w]) \o "\n", e.i)

\* a command() caller is suspended on the lock while the input loop is in the
\* middle of a host line, after a line of the sink's command() arrived whole
C1_Witness ==
  /\ \E c \in Cmds : cmd[c].pc = "lock"
  /\ InRunning("write") /\ wIn > 0 /\ wIn < Len(buf["in"])
  /\ \E p \in 1..Len(childIn) : childIn[p].w = "sink" /\ childIn[p].i = childIn[p].len

\* C2: once the child has closed both pipes, a pending start() returns
C2_RunTerminates == (~childAlive) ~> (startRes # "pending")

\* C6: the handler is called once for each line read, in the order the child
\* printed them: the i-th call is for the i-th line printed; a call comes only
\* after its line was written to the host's stdout, and the next line is read
\* only after the call.
C6_SinkDelivery ==
  /\ Len(sinkLog) <= Len(hostOut)
  /\ Len(hostOut) <= Len(readLog)
  /\ Len(readLog) <= Len(sinkLog) + 1
  /\ Len(readLog) <= Len(emitted)
  /\ \A i \in 1..Len(readLog) : readLog[i] = emitted[i]
  /\ \A i \in 1..Len(hostOut) : hostOut[i] = readLog[i]
  /\ \A i \in 1..Len(sinkLog) : SubSeq(readLog[i], 1, Len(sinkLog[i])) = sinkLog[i]
  /\ (OutRunning("read") \/ loop["out"].res = "ok") => Len(sinkLog) = Len(readLog)
  /\ OutRunning("handler") => Len(sinkLog) = Len(readLog)

\* the handler was called for two different lines
C6_Witness ==
  /\ Len(sinkLog) = 2
  /\ sinkLog[1] # sinkLog[2]
  /\ loop["out"].res = "ok"

\* C7: a handler that calls command() cannot deadlock the supervisor: while the
\* handler runs the output loop holds the output-channel lock alone, the
\* handler's command() holds at most the input-channel lock, and no task of the
\* supervisor waits, through locks and awaited calls, for itself.
C7_SinkCommandNoDeadlock ==
  /\ OutRunning("handler") => /\ HeldBy("out") = {"child_stdout"}
                              /\ HeldBy("sink") \subseteq {"child_stdin"}
  /\ \A t \in IoTasks : ~WaitChain(t, t, Cardinality(IoTasks))

\* the handler's command() is suspended on the input-channel lock, which the
\* input loop holds in the middle of a line
C7_Witness ==
  /\ OutRunning("handler")
  /\ cmd["sink"].pc = "lock"
  /\ locks["child_stdin"] = "in"
  /\ wIn > 0

\* C8: wait() holds the process-handle lock alone, so no mirror loop and no
\* command() call is ever suspended on a lock that a pending wait() holds.
C8_WaitLeavesPipesAlone ==
  /\ HeldBy("wait") \subseteq {"child"}
  /\ pcWait = "waiting" => HeldBy("wait") = {"child"}
  /\ \A t \in IoTasks : WaitsFor(t) # "wait"

\* wait() is pending on a live child while both loops hold their pipe locks
C8_Witness ==
  /\ pcWait = "waiting"
  /\ childAlive
  /\ locks["child_stdin"] = "in"
  /\ locks["child_stdout"] = "out"
  /\ \E c \in Cmds : cmd[c].pc = "ok"

\* C9: start() returns Ok only when both loops returned Ok, and it returns a
\* loop's Err the moment that loop returns it, the other loop still running.
C9_StartJoinsBothLoops ==
  /\ startRes = "ok" <=> (loop["in"].res = "ok" /\ loop["out"].res = "ok")
  /\ startRes = "err_in" <=> loop["in"].res = "err"
  /\ startRes = "err_out" <=> loop["out"].res = "err"
  /\ startRes = "pending" <=> (\E l \in {"in", "out"} : loop[l].res = "running")
  /\ \A l \in {"in", "out"} :
       loop[l].res = "cancelled" => startRes = (IF l = "in" THEN "err_out" ELSE "err_in")

\* start() returned the output loop's error while the input loop was in the
\* middle of a write: its future was dropped
C9_Witness ==
  /\ startRes = "err_out"
  /\ loop["in"].res = "cancelled"
  /\ wIn > 0

\* C10: in both loops end-of-stream on a read and broken-pipe on a write end
\* the loop with Ok, and start() does not return them as an error
C10_GracefulTermination ==
  \A l \in {"in", "out"} :
    loop[l].cause \in {"eof", "broken_pipe_write"} =>
      /\ loop[l].res = "ok"
      /\ startRes # (IF l = "in" THEN "err_in" ELSE "err_out")

-----------------------------------------------------------------------------
(* Regular expressions (the regex crate), on the ASCII characters the model
   uses.  A pattern is a list of nodes, matched by ordered search: the
   leftmost start position, at every alternation the first alternative that
   lets the rest of the pattern match, at every repetition the largest count
   that does.  That is the match the regex crate reports (leftmost-first
   semantics). *)

Digit == {"0", "1", "2", "3", "4", "5", "6", "7", "8", "9"}

Lower == {"a", "b", "c", "d", "e", "f", "g", "h", "i", "j", "k", "l", "m",
          "n", "o", "p", "q", "r", "s", "t", "u", "v", "w", "x", "y", "z"}

Upper == {"A", "B", "C", "D", "E", "F", "G", "H", "I", "J", "K", "L", "M",
          "N", "O", "P", "Q", "R", "S", "T", "U", "V", "W", "X", "Y", "Z"}

\* \w
WordChar == Digit \cup Lower \cup Upper \cup {"_"}

Least(S) == CHOOSE x \in S : \A y \in S : x <= y

\* first position at which s holds the text t, 0 if none
Find(s, t) ==
  LET hits == {k \in 1..(Len(s) - Len(t) + 1) : SubSeq(s, k, k + Len(t) - 1) = t}
  IN IF hits = {} THEN 0 ELSE Least(hits)

\* character classes: [...] and .
In(set) == [neg |-> FALSE, set |-> set]
Dot == [neg |-> TRUE, set |-> {"\n"}]
InCls(cls, c) == (c \in cls.set) # cls.neg

\* nodes of a pattern
\* ^
Bol == [t |-> "bol"]
\* literal text
Lit(str) == [t |-> "lit", s |-> str]
\* c{lo,hi}, c+ and c* of a character class c, greedy
Rep(cls, lo, hi) == [t |-> "rep", cls |-> cls, lo |-> lo, hi |-> hi]
Plus(cls) == [t |-> "rep", cls |-> cls, lo |-> 1, hi |-> -1]
Star(cls) == [t |-> "rep", cls |-> cls, lo |-> 0, hi |-> -1]
\* (?:a|b|...)
Alt(alts) == [t |-> "alt", alts |-> alts]
\* (?:a)?
Opt(re) == [t |-> "alt", alts |-> <<re, <<>>>>]
\* (a), the g-th capture group
Cap(g, re) == [t |-> "cap", g |-> g, re |-> re]
\* the end of capture group g that began at position from
Close(g, from) == [t |-> "close", g |-> g, from |-> from]

NoMatch == [ok |-> FALSE]

\* of the tried options [k, r], the successful one with the least k
FirstOk(options) ==
  LET good == {x \in options : x.r.ok}
  IN IF good = {} THEN NoMatch
     ELSE (CHOOSE x \in good : \A y \in good : x.k <= y.k).r

\* of the tried options [k, r], the successful one with the greatest k
LastOk(options) ==
  LET good == {x \in options : x.r.ok}
  IN IF good = {} THEN NoMatch
     ELSE (CHOOSE x \in good : \A y \in good : y.k <= x.k).r

\* length of the longest run of characters of cls in s from position i, at
\* most hi of them (hi < 0: no limit)
Run(cls, hi, s, i) ==
  LET cap == IF hi >= 0 /\ i + hi - 1 < Len(s) THEN i + hi - 1 ELSE Len(s)
      bad == {j \in i..cap : ~InCls(cls, CharAt(s, j))}
  IN IF bad = {} THEN cap - i + 1 ELSE Least(bad) - i

\* match the node list re against s from position i; caps holds, for each
\* group, <<start, end>> of its capture (end = 0: did not take part)
RECURSIVE Match(_, _, _, _)
Match(re, s, i, caps) ==
  CASE Len(re) = 0 -> [ok |-> TRUE, e |-> i, caps |-> caps]
    [] re[1].t = "bol" /\ i = 1 -> Match(Tail(re), s, i, caps)
    [] re[1].t = "lit" /\ i + Len(re[1].s) <= Len(s) + 1
         /\ SubSeq(s, i, i + Len(re[1].s) - 1) = re[1].s ->
         Match(Tail(re), s, i + Len(re[1].s), caps)
    [] re[1].t = "rep" /\ re[1].lo = re[1].hi
         /\ Run(re[1].cls, re[1].hi, s, i) = re[1].hi ->
         \* an exact count leaves no choice
         Match(Tail(re), s, i + re[1].hi, caps)
    [] re[1].t = "rep" /\ re[1].lo # re[1].hi ->
         \* greedy: the longest run first, then shorter ones
         LastOk({[k |-> k, r |-> Match(Tail(re), s, i + k, caps)] :
                   k \in re[1].lo..Run(re[1].cls, re[1].hi, s, i)})
    [] re[1].t = "alt" ->
         FirstOk({[k |-> k, r |-> Match(re[1].alts[k] \o Tail(re), s, i, caps)] :
                    k \in 1..Len(re[1].alts)})
    [] re[1].t = "cap" ->
         Match(re[1].re \o <<Close(re[1].g, i)>> \o Tail(re), s, i, caps)
    [] re[1].t = "close" ->
         Match(Tail(re), s, i, [caps EXCEPT ![re[1].g] = <<re[1].from, i>>])
    [] OTHER -> NoMatch

\* Regex::new: the pattern and the number of its capture groups
Regex(re, groups) == [re |-> re, groups |-> groups]

\* Regex::captures: the leftmost match
Captures(rx, s) ==
  FirstOk({[k |-> k,
            r |-> LET m == Match(rx.re, s, k, [g \in 1..rx.groups |-> <<0, 0>>])
                  IN IF m.ok THEN [ok |-> TRUE, s |-> k, e |-> m.e, caps |-> m.caps]
                     ELSE NoMatch] :
             k \in 1..(Len(s) + 1)})

\* Regex::is_match
IsMatch(rx, s) == Captures(rx, s).ok

\* Captures::get(g).is_some(): group g took part in the match
HasGroup(c, g) == c.caps[g][2] > 0

\* Captures::get(g).unwrap().as_str()
Group(c, s, g) == SubSeq(s, c.caps[g][1], c.caps[g][2] - 1)

DigitVal(c) == CHOOSE k \in 0..9 : CharAt("0123456789", k + 1) = c

-----------------------------------------------------------------------------
(* The death messages of parsing.rs *)

\* DEATH_MESSAGES, in the order of the table
DEATH_MESSAGES == <<
  "{1} fell off a ladder",
  "{1} fell off some vines",
  "{1} fell off some weeping vines",
  "{1} fell off some twisting vines",
  "{1} fell off scaffolding",
  "{1} fell while climbing",
  "{1} fell from a high place",
  "{1} was doomed to fall",
  "{1} was doomed to fall by {2}",
  "{1} was doomed to fall by {2} using {item}",
  "{1} fell too far and was finished by {2}",
  "{1} fell too far and was finished by {2} using {item}",
  "{1} was struck by lightning",
  "{1} was struck by lightning whilst fighting {2}",
  "{1} went up in flames",
  "{1} walked into fire whilst fighting {2}",
  "{1} burned to death",
  "{1} was burnt to a crisp whilst fighting {2}",
  "{1} tried to swim in lava",
  "{1} tried to swim in lava to escape {2}",
  "{1} discovered the floor was lava",
  "{1} walked into danger zone due to {2}",
  "{1} suffocated in a wall",
  "{1} suffocated in a wall whilst fighting {2}",
  "{1} was squished too much",
  "{1} was squashed by {2}",
  "{1} drowned",
  "{1} drowned whilst trying to escape {2}",
  "{1} died from dehydration",
  "{1} died from dehydration whilst trying to escape {2}",
  "{1} starved to death",
  "{1} starved to death whilst fighting {2}",
  "{1} was pricked to death",
  "{1} walked into a cactus whilst trying to escape {2}",
  "{1} died",
  "{1} died because of {2}",
  "{1} blew up",
  "{1} was blown up by {2}",
  "{1} was blown up by {2} using {item}",
  "{1} was killed by magic",
  "{1} was killed by magic whilst trying to escape {2}",
  "{1} was killed by even more magic",
  "{1} withered away",
  "{1} withered away whilst fighting {2}",
  "{1} was shot by a skull from {2}",
  "{1} was squashed by a falling anvil",
  "{1} was squashed by a falling anvil whilst fighting {2}",
  "{1} was squashed by a falling block",
  "{1} was squashed by a falling block whilst fighting {2}",
  "{1} was impaled on a stalagmite",
  "{1} was impaled on a stalagmite whilst fighting {2}",
  "{1} was skewered by a falling stalactite",
  "{1} was skewered by a falling stalactite whilst fighting {2}",
  "{1} was slain by {2}",
  "{1} was slain by {2} using {item}",
  "{1} was slain by {2}",
  "{1} was slain by {2} using {item}",
  "{1} was shot by {2}",
  "{1} was shot by {2} using {item}",
  "{1} was fireballed by {2}",
  "{1} was fireballed by {2} using {item}",
  "{1} was pummeled by {2}",
  "{1} was pummeled by {2} using {item}",
  "{1} was killed by {2} using magic",
  "{1} was killed by {2} using {item}",
  "{1} was killed trying to hurt {2}",
  "{1} was killed by {item} trying to hurt {2}",
  "{1} was impaled by {2}",
  "{1} was impaled by {2} with {item}",
  "{1} hit the ground too hard",
  "{1} hit the ground too hard whilst trying to escape {2}",
  "{1} fell out of the world",
  "{1} didn't want to live in the same world as {2}",
  "{1} was roasted in dragon breath",
  "{1} was roasted in dragon breath by {2}",
  "{1} experienced kinetic energy",
  "{1} experienced kinetic energy whilst trying to escape {2}",
  "{1} went off with a bang",
  "{1} went off with a bang whilst fighting {2}",
  "{1} went off with a bang due to a firework fired from {item} by {2}",
  "{1} was killed by Intentional Game Design",
  "{1} was poked to death by a sweet berry bush",
  "{1} was poked to death by a sweet berry bush whilst trying to escape {2}",
  "{1} was stung to death",
  "{1} was stung to death by {2}",
  "{1} froze to death",
  "{1} was frozen to death by {2}"
>>

-----------------------------------------------------------------------------
(* The patterns of parsing.rs *)

\* another pattern: [\w\d]{3,17}
MATCH_USERNAME_upTo17 == <<Rep(In(WordChar \cup Digit), 3, 17)>>

\* [\w\d]{3,16}
MATCH_USERNAME == <<Rep(In(WordChar \cup Digit), 3, 16)>>

\* (?:[\d\w]{9} [\d:.]{12}|[\d:]{8})
Timestamp ==
  Alt(<< <<Rep(In(Digit \cup WordChar), 9, 9), Lit(" "),
           Rep(In(Digit \cup {":", "."}), 12, 12)>>,
         <<Rep(In(Digit \cup {":"}), 8, 8)>> >>)

\* (?: \[[\w.]+/?\])?
Logger ==
  Opt(<<Lit(" ["), Plus(In(WordChar \cup {"."})), Opt(<<Lit("/")>>), Lit("]")>>)

\* ^\[ timestamp \] \[(?:Server thread/INFO|Async Chat Thread - #\d+/INFO)\] logger :
MATCH_INFO_LOG_CHAT ==
  <<Bol, Lit("["), Timestamp, Lit("] ["),
    Alt(<< <<Lit("Server thread/INFO")>>,
           <<Lit("Async Chat Thread - #"), Plus(In(Digit)), Lit("/INFO")>> >>),
    Lit("]"), Logger, Lit(":")>>

\* ^\[ timestamp \] \[Server thread/INFO\] logger :
MATCH_INFO_LOG ==
  <<Bol, Lit("["), Timestamp, Lit("] [Server thread/INFO]"), Logger, Lit(":")>>

\* ^\[ timestamp \] \[Server thread/WARN\] logger :
MATCH_WARN_LOG ==
  <<Bol, Lit("["), Timestamp, Lit("] [Server thread/WARN]"), Logger, Lit(":")>>

\* one entry of DEATH_MESSAGES as a pattern: {1} is MATCH_USERNAME, {2} and
\* {item} are .+
RECURSIVE Template(_)
Template(str) ==
  LET k == Find(str, "{") IN
  IF k = 0 THEN (IF str = "" THEN <<>> ELSE <<Lit(str)>>)
  ELSE
    LET j == k + Find(SubSeq(str, k + 1, Len(str)), "}")
        hole == IF SubSeq(str, k, j) = "{1}" THEN MATCH_USERNAME ELSE <<Plus(Dot)>>
    IN (IF k = 1 THEN <<>> ELSE <<Lit(SubSeq(str, 1, k - 1))>>)
         \o hole \o Template(SubSeq(str, j + 1, Len(str)))

\* (?:entry|entry|...), in the order of the table
match_death_messages ==
  Alt([k \in 1..Len(DEATH_MESSAGES) |-> Template(DEATH_MESSAGES[k])] \o <<>>)

\* {} Done \((\d+\.\d+)s\)! For help, type "help"
RX_DONE_LOADING ==
  Regex(MATCH_INFO_LOG
          \o <<Lit(" Done ("),
               Cap(1, <<Plus(In(Digit)), Lit("."), Plus(In(Digit))>>),
               Lit("s)! For help, type \"help\"")>>, 1)

\* {} Starting minecraft server version (.+)
RX_STARTING_SERVER ==
  Regex(MATCH_INFO_LOG
          \o <<Lit(" Starting minecraft server version "), Cap(1, <<Plus(Dot)>>)>>, 1)

\* {} Stopping server
RX_STOPPING_SERVER == Regex(MATCH_INFO_LOG \o <<Lit(" Stopping server")>>, 0)

\* {} Can't keep up! Is the server overloaded\? Running (\d+)ms or (\d+) ticks behind
RX_OVERLOADED ==
  Regex(MATCH_WARN_LOG
          \o <<Lit(" Can't keep up! Is the server overloaded? Running "),
               Cap(1, <<Plus(In(Digit))>>), Lit("ms or "),
               Cap(2, <<Plus(In(Digit))>>), Lit(" ticks behind")>>, 2)

\* {} (?:({u})|.+ \(vehicle of ({u})\)) moved (?:too quickly|wrongly)!.*
\* with u = MATCH_USERNAME the only argument of format!, which {} takes too
RX_PLAYER_MOVED_WRONGLY ==
  Regex(MATCH_USERNAME
          \o <<Lit(" "),
               Alt(<< <<Cap(1, MATCH_USERNAME)>>,
                      <<Plus(Dot), Lit(" (vehicle of "), Cap(2, MATCH_USERNAME),
                        Lit(")")>> >>),
               Lit(" moved "),
               Alt(<< <<Lit("too quickly")>>, <<Lit("wrongly")>> >>),
               Lit("!"), Star(Dot)>>, 2)

\* {} ({})
RX_PLAYER_DIED ==
  Regex(MATCH_INFO_LOG \o <<Lit(" "), Cap(1, <<match_death_messages>>)>>, 1)

\* {} <({})> (.+)
RX_CHAT_MESSAGE ==
  Regex(MATCH_INFO_LOG_CHAT
          \o <<Lit(" <"), Cap(1, MATCH_USERNAME), Lit("> "), Cap(2, <<Plus(Dot)>>)>>, 2)

\* {} ({}) joined the game
RX_PLAYER_JOINED ==
  Regex(MATCH_INFO_LOG \o <<Lit(" "), Cap(1, MATCH_USERNAME), Lit(" joined the game")>>, 1)

\* {} ({}) left the game
RX_PLAYER_LEFT ==
  Regex(MATCH_INFO_LOG \o <<Lit(" "), Cap(1, MATCH_USERNAME), Lit(" left the game")>>, 1)

-----------------------------------------------------------------------------
(* Numbers (str::parse) *)

None == [some |-> FALSE]
Some(v) == [some |-> TRUE, val |-> v]

\* a u32 is kept as two 16-bit halves
Half == 2^16

U32(n) == [hi |-> n \div Half, lo |-> n % Half]

\* str::parse::<u32> on a text of decimal digits: None when the text is empty,
\* holds another character, or its value exceeds u32::MAX
RECURSIVE ParseU32From(_, _, _)
ParseU32From(str, i, acc) ==
  IF i > Len(str) THEN Some(acc)
  ELSE IF CharAt(str, i) \notin Digit THEN None
  ELSE LET lo == acc.lo * 10 + DigitVal(CharAt(str, i))
           hi == acc.hi * 10 + lo \div Half
       IN IF hi >= Half THEN None
          ELSE ParseU32From(str, i + 1, [hi |-> hi, lo |-> lo % Half])

\* another parse: the value modulo 2^32
ParseU32_wrapping(str) ==
  LET RECURSIVE Wrap(_, _)
      Wrap(i, acc) ==
        IF i > Len(str) THEN acc
        ELSE LET lo == acc.lo * 10 + DigitVal(CharAt(str, i))
             IN Wrap(i + 1, [hi |-> (acc.hi * 10 + lo \div Half) % Half,
                             lo |-> lo % Half])
  IN IF Len(str) = 0 \/ ~(Chars(str) \subseteq Digit) THEN None
     ELSE Some(Wrap(1, U32(0)))

ParseU32(str) == IF Len(str) = 0 THEN None ELSE ParseU32From(str, 1, U32(0))

\* text without its leading "0"s (one is kept)
RECURSIVE DropLeadingZeros(_)
DropLeadingZeros(str) ==
  IF Len(str) > 1 /\ CharAt(str, 1) = "0" THEN DropLeadingZeros(Tail(str)) ELSE str

\* text without its trailing "0"s (one digit is kept)
RECURSIVE DropTrailingZeros(_)
DropTrailingZeros(str) ==
  IF Len(str) > 1 /\ CharAt(str, Len(str)) = "0"
  THEN DropTrailingZeros(SubSeq(str, 1, Len(str) - 1))
  ELSE str

\* str::parse::<f64> on a text "digits.digits": the decimal number it
\* writes, as its whole and fractional digits (rounding to f64 is left out)
ParseF64(str) ==
  LET dot == Find(str, ".") IN
  IF dot <= 1 \/ dot = Len(str) THEN None
  ELSE Some([whole |-> DropLeadingZeros(SubSeq(str, 1, dot - 1)),
             frac |-> DropTrailingZeros(SubSeq(str, dot + 1, Len(str)))])

-----------------------------------------------------------------------------
(* The matchers of parsing.rs *)

match_done_loading(ln) ==
  LET captures == Captures(RX_DONE_LOADING, ln) IN
  IF ~captures.ok THEN None
  ELSE ParseF64(Group(captures, ln, 1))

match_starting_server(ln) ==
  LET captures == Captures(RX_STARTING_SERVER, ln) IN
  IF ~captures.ok THEN None
  ELSE Some(Group(captures, ln, 1))

match_stopping_server(ln) == IsMatch(RX_STOPPING_SERVER, ln)

match_overloaded(ln) ==
  LET captures == Captures(RX_OVERLOADED, ln) IN
  IF ~captures.ok THEN None
  ELSE
    LET ticks_behind == ParseU32(Group(captures, ln, 1)) IN
    IF ~ticks_behind.some THEN None
    ELSE
      LET ms_behind == ParseU32(Group(captures, ln, 2)) IN
      IF ~ms_behind.some THEN None
      ELSE Some(<<ticks_behind.val, ms_behind.val>>)

match_player_moved_wrongly(ln) ==
  LET captures == Captures(RX_PLAYER_MOVED_WRONGLY, ln) IN
  IF ~captures.ok THEN None
  ELSE Some(IF HasGroup(captures, 1) THEN Group(captures, ln, 1)
            ELSE Group(captures, ln, 2))

match_player_died(ln) ==
  LET captures == Captures(RX_PLAYER_DIED, ln) IN
  IF ~captures.ok THEN None
  ELSE Some(Group(captures, ln, 1))

match_chat_message(ln) ==
  LET captures == Captures(RX_CHAT_MESSAGE, ln) IN
  IF ~captures.ok THEN None
  ELSE Some(<<Group(captures, ln, 1), Group(captures, ln, 2)>>)

match_player_joined(ln) ==
  LET captures == Captures(RX_PLAYER_JOINED, ln) IN
  IF ~captures.ok THEN None
  ELSE Some(Group(captures, ln, 1))

match_player_left(ln) ==
  LET captures == Captures(RX_PLAYER_LEFT, ln) IN
  IF ~captures.ok THEN None
  ELSE Some(Group(captures, ln, 1))

-----------------------------------------------------------------------------
(* strip_ansi_escapes: the vte parser driving Performer *)

\* the bytes 0x1b, 0x07 and 0x7f
ESC == ""
BEL == ""
DEL == ""

\* 0x20..0x2f
Intermediate == {" ", "!", "\"", "#", "$", "%", "&", "'", "(", ")", "*", "+",
                 ",", "-", ".", "/"}

\* 0x30..0x3f
ParamChar == Digit \cup {":", ";", "<", "=", ">", "?"}

\* 0x40..0x7e (0x60 cannot be written in a string here)
FinalChar == Upper \cup Lower \cup {"@", "[", "\\", "]", "^", "_", "{", "|", "}", "~"}

\* the C0 controls of the model's alphabet (all of them "execute" bytes)
Control == {"\t", "\n", "\r", "\f", BEL}

\* another Performer: execute pushes every byte it is given
execute_pushAll(c) == c

\* Performer::execute
execute(c) == IF c = "\n" THEN "\n" ELSE ""

\* Performer::print
print(c) == c

\* Parser::advance on one byte: the next state and what Performer appended.
\* In the ground state the bytes 0x20..0x7f, DEL among them, are printed; in
\* the other states DEL is ignored.
\* The states inside a CSI sequence, and those inside a DCS string, are one
\* state each here: they differ in what the parser collects, and Performer
\* takes neither parameters nor dispatches.
advance(st, c) ==
  CASE c = ESC -> [st |-> "escape", out |-> ""]
    [] c # ESC /\ st = "ground" ->
         [st |-> "ground", out |-> IF c \in Control THEN execute(c) ELSE print(c)]
    [] c # ESC /\ st = "escape" ->
         IF c \in Control THEN [st |-> "escape", out |-> execute(c)]
         ELSE IF c = DEL THEN [st |-> "escape", out |-> ""]
         ELSE IF c \in Intermediate THEN [st |-> "escape_intermediate", out |-> ""]
         ELSE IF c = "[" THEN [st |-> "csi", out |-> ""]
         ELSE IF c = "]" THEN [st |-> "osc_string", out |-> ""]
         ELSE IF c = "P" THEN [st |-> "dcs", out |-> ""]
         ELSE IF c \in {"X", "^", "_"} THEN [st |-> "sos_pm_apc_string", out |-> ""]
         ELSE [st |-> "ground", out |-> ""]
    [] c # ESC /\ st = "escape_intermediate" ->
         IF c \in Control THEN [st |-> "escape_intermediate", out |-> execute(c)]
         ELSE IF c = DEL THEN [st |-> "escape_intermediate", out |-> ""]
         ELSE IF c \in Intermediate THEN [st |-> "escape_intermediate", out |-> ""]
         ELSE [st |-> "ground", out |-> ""]
    [] c # ESC /\ st = "csi" ->
         IF c \in Control THEN [st |-> "csi", out |-> execute(c)]
         ELSE IF c \in FinalChar THEN [st |-> "ground", out |-> ""]
         ELSE [st |-> "csi", out |-> ""]
    [] c # ESC /\ st = "osc_string" ->
         IF c = BEL THEN [st |-> "ground", out |-> ""]
         ELSE [st |-> "osc_string", out |-> ""]
    [] c # ESC /\ st \in {"dcs", "sos_pm_apc_string"} -> [st |-> st, out |-> ""]

\* the bytes lo..hi of b, fed to the parser in order from state st
RECURSIVE AdvanceAll(_, _, _, _)
AdvanceAll(b, lo, hi, st) ==
  IF lo > hi THEN [st |-> st, out |-> ""]
  ELSE IF lo = hi THEN advance(st, CharAt(b, lo))
  ELSE LET mid == (lo + hi) \div 2
           left == AdvanceAll(b, lo, mid, st)
           right == AdvanceAll(b, mid + 1, hi, left.st)
       IN [out |-> left.out \o right.out, st |-> right.st]

strip_ansi_escapes(b) == AdvanceAll(b, 1, Len(b), "ground").out

-----------------------------------------------------------------------------
(* ConsoleLine::parse_from, one step per branch of its if/else chain *)

\* another order: the chat rule before the moved-wrongly rule
Chain_chatFirst ==
  <<"DoneLoading", "StartingServer", "StoppingServer", "Overloaded",
    "ChatMessage", "PlayerDied", "PlayerMovedWrongly", "PlayerJoined",
    "PlayerLeft">>

\* the order in which parse_from tries the matchers
Chain == <<"DoneLoading", "StartingServer", "StoppingServer", "Overloaded",
           "PlayerMovedWrongly", "PlayerDied", "ChatMessage", "PlayerJoined",
           "PlayerLeft">>

\* what the matcher of variant v returns for the text ln
Matcher(v, ln) ==
  CASE v = "DoneLoading" -> match_done_loading(ln)
    [] v = "StartingServer" -> match_starting_server(ln)
    [] v = "StoppingServer" -> IF match_stopping_server(ln) THEN Some(<<>>) ELSE None
    [] v = "Overloaded" -> match_overloaded(ln)
    [] v = "PlayerMovedWrongly" -> match_player_moved_wrongly(ln)
    [] v = "PlayerDied" -> match_player_died(ln)
    [] v = "ChatMessage" -> match_chat_message(ln)
    [] v = "PlayerJoined" -> match_player_joined(ln)
    [] v = "PlayerLeft" -> match_player_left(ln)

\* the ConsoleLine built from what the matcher of variant v returned
ConsoleLine(v, val) ==
  CASE v = "DoneLoading" -> [variant |-> v, time |-> val]
    [] v = "StartingServer" -> [variant |-> v, version |-> val]
    [] v = "StoppingServer" -> [variant |-> v]
    [] v = "Overloaded" -> [variant |-> v, ticks_behind |-> val[1], ms_behind |-> val[2]]
    [] v = "PlayerMovedWrongly" -> [variant |-> v, username |-> val]
    [] v = "PlayerDied" -> [variant |-> v, death_message |-> val]
    [] v = "ChatMessage" -> [variant |-> v, username |-> val[1], message |-> val[2]]
    [] v = "PlayerJoined" -> [variant |-> v, username |-> val]
    [] v = "PlayerLeft" -> [variant |-> v, username |-> val]

NoEvent == [variant |-> "None"]

\* the branch after that of variant v; after the last one, the final else
After(v) ==
  LET k == CHOOSE j \in 1..Len(Chain) : Chain[j] = v
  IN IF k < Len(Chain) THEN Chain[k + 1] ELSE "return"

\* let line = strip_ansi_escapes(line.as_ref());
Strip ==
  /\ rule = "strip"
  /\ stripped' = strip_ansi_escapes(line)
  /\ rule' = Chain[1]
  /\ UNCHANGED <<ioVars, runVars, line, event>>

\* one branch: return the variant if its matcher yields a value, else go on
Try(v) ==
  /\ LET m == Matcher(v, stripped) IN
     IF m.some
     THEN event' = ConsoleLine(v, m.val) /\ rule' = "return"
     ELSE event' = NoEvent /\ rule' = After(v)
  /\ UNCHANGED <<ioVars, runVars, line, stripped>>

TryDoneLoading ==
  /\ rule = "DoneLoading"
  /\ Try("DoneLoading")

TryStartingServer ==
  /\ rule = "StartingServer"
  /\ Try("StartingServer")

TryStoppingServer ==
  /\ rule = "StoppingServer"
  /\ Try("StoppingServer")

TryOverloaded ==
  /\ rule = "Overloaded"
  /\ Try("Overloaded")

TryPlayerMovedWrongly ==
  /\ rule = "PlayerMovedWrongly"
  /\ Try("PlayerMovedWrongly")

TryPlayerDied ==
  /\ rule = "PlayerDied"
  /\ Try("PlayerDied")

TryChatMessage ==
  /\ rule = "ChatMessage"
  /\ Try("ChatMessage")

TryPlayerJoined ==
  /\ rule = "PlayerJoined"
  /\ Try("PlayerJoined")

TryPlayerLeft ==
  /\ rule = "PlayerLeft"
  /\ Try("PlayerLeft")


-----------------------------------------------------------------------------
(* The classifier's specification: parse_from on one console line *)

\* what a console line starts with: the prefixes of a vanilla server and of a
\* modded one, other threads, and lines that carry none at their start
Prefixes == {
  "[09:58:23] [Server thread/INFO]:",
  "[09:58:23] [Server thread/WARN]:",
  "[09:58:23] [Async Chat Thread - #1/INFO]:",
  "[12Jan2021 09:58:23.123] [Server thread/INFO] [minecraft/]:",
  "",
  "abc",
  "[09:58:23] [Worker-Main-1/INFO]:",
  " [09:58:23] [Server thread/INFO]:" }

Overload == " Can't keep up! Is the server overloaded? Running "

\* what follows the prefix
Bodies == {
  " Done (1.5s)! For help, type \"help\"",
  " Done (15s)! For help, type \"help\"",
  " Starting minecraft server version 1.17.1",
  " Starting minecraft server version abc Bob moved wrongly!",
  " Stopping server",
  " Stopping the server",
  Overload \o "1234ms or 56 ticks behind",
  Overload \o "7ms or 7 ticks behind",
  Overload \o "4294967295ms or 1 ticks behind",
  Overload \o "4294967296ms or 1 ticks behind",
  Overload \o "2000ms or 4294967296 ticks behind",
  Overload \o "4294967296ms or 40 ticks behind abc Bob moved wrongly!",
  " Alex moved wrongly!",
  " Alex moved too quickly!",
  " Pig (vehicle of Alex) moved wrongly!",
  " Alex drowned",
  " Alex drowned whilst trying to escape Bob",
  " Alex was slain by Bob using Excalibur",
  " <Alex> hello",
  " <Alex> Bob joined the game",
  " <Alex> abc Bob moved wrongly!",
  " Alex joined the game",
  " Alex left the game",
  " Al joined the game",
  " Abcdefghijklmnop joined the game",
  " Abcdefghijklmnopq joined the game",
  " Alex has made the advancement [Stone Age]",
  " Alex joined the game abc Bob moved wrongly!" }

InfoPrefix == "[09:58:23] [Server thread/INFO]:"

\* lines with escape sequences and control characters in them
Coloured == {
  ESC \o "[32m" \o InfoPrefix \o " Alex joined the game" \o ESC \o "[0m",
  InfoPrefix \o " Al" \o ESC \o "[1mex left the game",
  InfoPrefix \o " <Alex> " \o ESC \o "]0;title" \o BEL \o "hi\n",
  ESC \o "(B" \o InfoPrefix \o " Stopping server\r\n",
  "[09:58:23] [Server thread/WARN]: Alex" \o ESC \o "[3\n1m moved wrongly!",
  "" }

\* name tokens of 2, 3, 16 and 17 characters
Names == {"Al", "Bob", "Abcdefghijklmnop", "Abcdefghijklmnopq"}

\* the messages that carry a player's name
NameForms == {"joined", "left", "chat", "direct", "vehicle"}

\* the message of form f about the name n
NameBody(f, n) ==
  CASE f = "joined" -> " " \o n \o " joined the game"
    [] f = "left" -> " " \o n \o " left the game"
    [] f = "chat" -> " <" \o n \o "> hello"
    [] f = "direct" -> " " \o n \o " moved wrongly!"
    [] f = "vehicle" -> " Pig (vehicle of " \o n \o ") moved wrongly!"

NameBodies == {NameBody(f, n) : f \in NameForms, n \in Names}

\* one entry of DEATH_MESSAGES as a message: {1} is Alex, {2} is Bob, {item}
\* is Excalibur
RECURSIVE Instance(_)
Instance(str) ==
  LET k == Find(str, "{") IN
  IF k = 0 THEN str
  ELSE
    LET j == k + Find(SubSeq(str, k + 1, Len(str)), "}")
        hole == SubSeq(str, k, j)
        with == CASE hole = "{1}" -> "Alex"
                  [] hole = "{2}" -> "Bob"
                  [] hole = "{item}" -> "Excalibur"
    IN SubSeq(str, 1, k - 1) \o with \o Instance(SubSeq(str, j + 1, Len(str)))

\* a death message of every entry of the table
DeathBodies == {Instance(DEATH_MESSAGES[k]) : k \in 1..Len(DEATH_MESSAGES)}

\* the lines parse_from is given
Lines ==
  {p \o b : p \in Prefixes, b \in Bodies \cup NameBodies}
    \cup {InfoPrefix \o " " \o b : b \in DeathBodies}
    \cup Coloured

ParseInit ==
  /\ IoInit
  /\ RunIdle
  /\ line \in Lines
  /\ stripped = ""
  /\ rule = "strip"
  /\ event = NoEvent

ParseNext ==
  \/ Strip
  \/ TryDoneLoading
  \/ TryStartingServer
  \/ TryStoppingServer
  \/ TryOverloaded
  \/ TryPlayerMovedWrongly
  \/ TryPlayerDied
  \/ TryChatMessage
  \/ TryPlayerJoined
  \/ TryPlayerLeft

ParseSpec == ParseInit /\ [][ParseNext]_vars

-----------------------------------------------------------------------------
(* Claims about the classifier *)

\* parse_from has returned
Returned == rule = "return"

\* the text of s between the first a and the first b
Between(s, a, b) == SubSeq(s, Find(s, a) + Len(a), Find(s, b) - 1)

\* X of "Running Xms or Y ticks behind"
RunningMs(ln) == Between(ln, "Running ", "ms or ")

\* Y of "Running Xms or Y ticks behind"
RunningTicks(ln) == Between(ln, "ms or ", " ticks behind")

\* an overload warning behind a WARN prefix, both of its numbers within u32
IsOverloadWarning(ln) ==
  LET c == Captures(RX_OVERLOADED, ln) IN
  /\ c.ok
  /\ c.e = Len(ln) + 1
  /\ ParseU32(RunningMs(ln)).some
  /\ ParseU32(RunningTicks(ln)).some

\* C3: an overload warning "Running Xms or Y ticks behind" behind a WARN
\* prefix classifies as Overloaded with ticks_behind = Y and ms_behind = X
C3_OverloadedFields ==
  (Returned /\ IsOverloadWarning(stripped)) =>
    event = [variant |-> "Overloaded",
             ticks_behind |-> ParseU32(RunningTicks(stripped)).val,
             ms_behind |-> ParseU32(RunningMs(stripped)).val]

\* the priority order of the rules
PriorityOrder ==
  <<"DoneLoading", "StartingServer", "StoppingServer", "Overloaded",
    "PlayerMovedWrongly", "PlayerDied", "ChatMessage", "PlayerJoined",
    "PlayerLeft">>

\* the rules whose matcher yields a value for the text ln
Yielding(ln) == {k \in 1..Len(PriorityOrder) : Matcher(PriorityOrder[k], ln).some}

\* the pattern of a rule
Pattern(v) ==
  CASE v = "DoneLoading" -> RX_DONE_LOADING
    [] v = "StartingServer" -> RX_STARTING_SERVER
    [] v = "StoppingServer" -> RX_STOPPING_SERVER
    [] v = "Overloaded" -> RX_OVERLOADED
    [] v = "PlayerMovedWrongly" -> RX_PLAYER_MOVED_WRONGLY
    [] v = "PlayerDied" -> RX_PLAYER_DIED
    [] v = "ChatMessage" -> RX_CHAT_MESSAGE
    [] v = "PlayerJoined" -> RX_PLAYER_JOINED
    [] v = "PlayerLeft" -> RX_PLAYER_LEFT

\* C4, as amended: the returned variant is the earliest rule in the priority
\* order whose matcher yields a value for the sanitized line (its pattern
\* matches and its numeric captures parse), and no event is returned exactly
\* when no rule's matcher yields one
C4_FirstYieldingRuleWins ==
  Returned =>
    event.variant = (IF Yielding(stripped) = {} THEN "None"
                     ELSE PriorityOrder[Least(Yielding(stripped))])

\* C4: a returned line for which two rules yield a value
C4_Witness == Returned /\ Cardinality(Yielding(stripped)) >= 2

\* C4, as stated: the returned variant is the earliest rule in the priority
\* order whose pattern matches the sanitized line, and no event is returned
\* exactly when no pattern matches
C4_FirstMatchingPatternWins ==
  Returned =>
    LET matching == {k \in 1..Len(PriorityOrder) :
                       IsMatch(Pattern(PriorityOrder[k]), stripped)}
    IN event.variant = (IF matching = {} THEN "None"
                        ELSE PriorityOrder[Least(matching)])

\* "[" timestamp "] [" thread/level "]" logger ":" at the start of the text,
\* for any thread and level
AnyLogPrefix ==
  Regex(<<Bol, Lit("["), Timestamp, Lit("] ["),
          Plus([neg |-> TRUE, set |-> {"]", "\n"}]), Lit("]"), Logger, Lit(":")>>, 0)

\* C5: a line that does not begin with a log prefix is never classified as
\* an event, by any rule
C5_PrefixRequired ==
  (Returned /\ event.variant # "None") => IsMatch(AnyLogPrefix, stripped)

-----------------------------------------------------------------------------
(* The sanitizer's specification: strip_ansi_escapes on one buffer *)

\* length of the buffers given to strip_ansi_escapes
MaxBytes == 4

\* their bytes: text, controls, and the bytes that open, continue and close
\* the escape sequences
Alphabet == {"a", "1", " ", "\n", "\t", ESC, "[", "]", "P", "X", BEL, DEL}

\* every buffer of n bytes
RECURSIVE Buffers(_)
Buffers(n) == IF n = 0 THEN {""} ELSE {b \o c : b \in Buffers(n - 1), c \in Alphabet}

StripInit ==
  /\ IoInit
  /\ RunIdle
  /\ line \in UNION {Buffers(n) : n \in 0..MaxBytes}
  /\ stripped = ""
  /\ rule = "strip"
  /\ event = NoEvent

StripNext == Strip

StripSpec == StripInit /\ [][StripNext]_vars

-----------------------------------------------------------------------------
(* Claims about the sanitizer *)

\* strip_ansi_escapes has returned
Sanitized == rule # "strip"

\* the text s without its characters of the set drop
RECURSIVE Without(_, _)
Without(s, drop) ==
  IF s = "" THEN ""
  ELSE (IF Head(s) \in drop THEN "" ELSE SubSeq(s, 1, 1)) \o Without(Tail(s), drop)

\* the C0 control bytes other than newline
C0ButNewline == Control \ {"\n"}

-----------------------------------------------------------------------------
(* Claims about the captured fields *)

\* the rules that capture a username
NameRules == {"PlayerMovedWrongly", "ChatMessage", "PlayerJoined", "PlayerLeft"}

\* the rule a message of form f is for
RuleOf(f) ==
  CASE f = "joined" -> "PlayerJoined"
    [] f = "left" -> "PlayerLeft"
    [] f = "chat" -> "ChatMessage"
    [] f \in {"direct", "vehicle"} -> "PlayerMovedWrongly"

\* a line of form f about the name n that the rule of f accepts when n is a
\* username: joins, leaves and chat behind the INFO prefix, the vehicle form
\* behind the WARN prefix, the direct form behind a word
NameLine(f, n) ==
  (CASE f \in {"joined", "left", "chat"} -> InfoPrefix
     [] f = "vehicle" -> "[09:58:23] [Server thread/WARN]:"
     [] f = "direct" -> "abc") \o NameBody(f, n)

\* C12: a captured username has 3 to 16 word or digit characters; a line
\* whose name token has 2 or 17 characters yields no event from its rule, the
\* same line with a name token of 3 or 16 characters yields the event with
\* the whole token as username
C12_UsernameBounds ==
  Returned =>
    /\ event.variant \in NameRules =>
         /\ Len(event.username) \in 3..16
         /\ Chars(event.username) \subseteq WordChar
    /\ \A f \in NameForms, n \in Names :
         stripped = NameLine(f, n) =>
           IF Len(n) \in 3..16
           THEN event.variant = RuleOf(f) /\ event.username = n
           ELSE event.variant # RuleOf(f) /\ ~Matcher(RuleOf(f), stripped).some

\* C12: a name of 16 characters was captured whole
C12_Witness ==
  /\ Returned
  /\ event.variant \in NameRules
  /\ Len(event.username) = 16
  /\ \E f \in NameForms : stripped = NameLine(f, event.username)

\* the decimal numeral a is greater than the numeral b of the same length
RECURSIVE NumeralGreater(_, _)
NumeralGreater(a, b) ==
  /\ a # ""
  /\ \/ DigitVal(SubSeq(a, 1, 1)) > DigitVal(SubSeq(b, 1, 1))
     \/ /\ SubSeq(a, 1, 1) = SubSeq(b, 1, 1)
        /\ NumeralGreater(Tail(a), Tail(b))

\* the decimal numeral str writes a number above 2^32 - 1
ExceedsU32(str) ==
  LET d == DropLeadingZeros(str) IN
  \/ Len(d) > 10
  \/ Len(d) = 10 /\ NumeralGreater(d, "4294967295")

\* the rules after Overloaded whose matcher yields a value for the text ln
YieldingAfterOverloaded(ln) ==
  {k \in 5..Len(PriorityOrder) : Matcher(PriorityOrder[k], ln).some}

\* C13: an Overloaded line one of whose numbers exceeds 2^32 - 1 yields no
\* Overloaded event, and the event of the first of the remaining rules that
\* yields one (no event if none does); with both numbers within the range it
\* yields Overloaded
C13_OverflowIsNoMatch ==
  (Returned /\ IsMatch(RX_OVERLOADED, stripped)) =>
    IF ExceedsU32(RunningMs(stripped)) \/ ExceedsU32(RunningTicks(stripped))
    THEN event.variant =
           (IF YieldingAfterOverloaded(stripped) = {} THEN "None"
            ELSE PriorityOrder[Least(YieldingAfterOverloaded(stripped))])
    ELSE event.variant = "Overloaded"

\* C13: a number above the range, and a later rule classified the line
C13_Witness ==
  /\ Returned
  /\ IsMatch(RX_OVERLOADED, stripped)
  /\ ExceedsU32(RunningMs(stripped))
  /\ event.variant = "PlayerMovedWrongly"

-----------------------------------------------------------------------------
(* Claims about the text and the locks of the mirror loops *)

\* a line without its line terminator, "\n" or "\r\n"
WithoutTerminator(l) ==
  LET n == Len(l) IN
  IF n >= 2 /\ SubSeq(l, n - 1, n) = "\r\n" THEN SubSeq(l, 1, n - 2)
  ELSE IF n >= 1 /\ SubSeq(l, n, n) = "\n" THEN SubSeq(l, 1, n - 1)
  ELSE l

\* C14: the text handed to the event handler for a line is the line without
\* its line terminator, every other character unchanged, trailing spaces and
\* tabs included
C14_OnlyTerminatorRemoved ==
  \A i \in 1..Len(sinkLog) : sinkLog[i] = WithoutTerminator(readLog[i])

\* the output loop is in its dispatch step: console_line is being called
OutDispatching == OutRunning("sink") \/ OutRunning("handler")

\* C15, as amended: the input loop holds the input-channel lock only while it
\* writes one line, not while it reads host input nor between two
\* iterations; the output loop holds the output-channel lock from its first
\* read until it returns, the dispatch step included; neither loop holds the
\* other channel's lock, and a loop that returned holds none
C15_LockSpans ==
  /\ (InRunning("read") \/ InRunning("lock")) => HeldBy("in") = {}
  /\ InRunning("write") => HeldBy("in") = {"child_stdin"}
  /\ OutRunning("lock") => HeldBy("out") = {}
  /\ (OutRunning("read") \/ OutRunning("write") \/ OutDispatching) =>
       HeldBy("out") = {"child_stdout"}
  /\ \A l \in {"in", "out"} : loop[l].res # "running" => HeldBy(l) = {}

\* C15: the handler is being called while the input loop, one line written,
\* waits for the next
C15_Witness ==
  /\ OutDispatching
  /\ InRunning("read")
  /\ hostTyped >= 1

\* C15, as stated: a loop that is in its dispatch step or between two
\* iterations holds neither channel lock
C15_NoLockWhileDispatching ==
  /\ InRunning("read") => HeldBy("in") \cap {"child_stdin", "child_stdout"} = {}
  /\ OutDispatching => HeldBy("out") \cap {"child_stdin", "child_stdout"} = {}

-----------------------------------------------------------------------------
(* Claims about the moved-wrongly, death and chat rules *)

WarnPrefix == "[09:58:23] [Server thread/WARN]:"

\* the names of Names that are usernames
Usernames == {n \in Names : Len(n) \in 3..16}

\* C16: behind a log prefix, "<name> moved wrongly!" and "<name> moved too
\* quickly!" yield PlayerMovedWrongly with <name>, and "<entity> (vehicle of
\* <name>) moved wrongly!" yields it with the possessive <name>
C16_BothFormsYieldName ==
  Returned =>
    \A p \in {InfoPrefix, WarnPrefix} :
      /\ \A f \in {"direct", "vehicle"}, n \in Usernames :
           stripped = p \o NameBody(f, n) =>
             event = [variant |-> "PlayerMovedWrongly", username |-> n]
      /\ stripped = p \o " Alex moved too quickly!" =>
           event = [variant |-> "PlayerMovedWrongly", username |-> "Alex"]

\* C17: behind the INFO prefix, a message of any entry of the death table
\* yields PlayerDied with the whole message
C17_WholeDeathMessage ==
  Returned =>
    \A b \in DeathBodies :
      stripped = InfoPrefix \o " " \o b =>
        event = [variant |-> "PlayerDied", death_message |-> b]

\* what Alex writes in the chat
ChatTexts == {"hello", "Bob joined the game", "abc Bob moved wrongly!"}

\* C18: behind a chat prefix, " <username> " and a message yield ChatMessage
\* with that username and that message, whatever the message reads like
C18_ChatCannotForge ==
  Returned =>
    \A p \in {InfoPrefix, "[09:58:23] [Async Chat Thread - #1/INFO]:"}, t \in ChatTexts :
      stripped = p \o " <Alex> " \o t =>
        event = [variant |-> "ChatMessage", username |-> "Alex", message |-> t]

-----------------------------------------------------------------------------
(* Claims about command(), wait() and kill() *)

\* C19: the input loop holds the input-channel lock only between the read of
\* a full host line and the next read, never while it waits for host input;
\* so a command() call that waits for the lock gets it and returns, also
\* when the host operator types nothing
C19_CommandWhileHostIdle ==
  /\ [](InRunning("read") => locks["child_stdin"] # "in")
  /\ [](locks["child_stdin"] = "in" => (InRunning("write") /\ buf["in"] # ""))
  /\ \A c \in Cmds : (cmd[c].pc = "lock") ~> (cmd[c].pc \in {"ok", "err"})

\* C19: a command() call wrote its line while the input loop waited for the
\* first host line
C19_Witness ==
  /\ InRunning("read")
  /\ hostTyped = 0
  /\ \E c \in Cmds : cmd[c].pc = "ok"

\* C20: a kill() call that waits for the process-handle lock while a wait()
\* call is pending gets the lock and kills the child, also when the child
\* would never exit by itself
C20_KillDespitePendingWait ==
  (pcKill = "lock" /\ pcWait = "waiting") ~> (pcKill = "done")

-----------------------------------------------------------------------------
(* The top-level loop of puppetmaster/src/main.rs: run() launches a server, *)
(* and wait_and_restart stops it at Config::restart_time.  Time is counted  *)
(* in minutes; an instant is the number of minutes since midnight of day 0. *)

\* servers that run() launches in one behaviour
MaxLaunches == 2
\* minutes by which a step that follows sleep_until may come late
MaxLate == 1

MinutesPerDay == 24 * 60

\* next_restart with `time < now` for its `time <= now`
next_restart_strict(self, now) ==
  LET date == now \div MinutesPerDay
      and_time(d) == d * MinutesPerDay + self
      time == and_time(date)
  IN IF time < now THEN and_time(date + 1) ELSE time

\* Config::next_restart; `self` is restart_time
next_restart(self, now) ==
  LET date == now \div MinutesPerDay
      and_time(d) == d * MinutesPerDay + self
      time == and_time(date)
  IN IF time <= now THEN and_time(date + 1) ELSE time

\* chrono's Duration::to_std: an error for a negative duration
to_std(d) == IF d < 0 THEN None ELSE Some(d)

time_remaining_minus(t, remaining, a) ==
  LET d == to_std(remaining - a) IN IF d.some THEN Some(t + d.val) ELSE None

\* None stands for the panic of `unwrap`
time_remaining(t, remaining) ==
  LET d == to_std(remaining) IN IF d.some THEN Some(t + d.val) ELSE None

\* the array `warnings` of wait_and_restart
warnings(now, remaining) ==
  << [warning |-> [kind |-> "Remaining", mins |-> 30],
      instant |-> time_remaining_minus(now, remaining, 30)],
     [warning |-> [kind |-> "Remaining", mins |-> 10],
      instant |-> time_remaining_minus(now, remaining, 10)],
     [warning |-> [kind |-> "Remaining", mins |-> 5],
      instant |-> time_remaining_minus(now, remaining, 5)],
     [warning |-> [kind |-> "Remaining", mins |-> 1],
      instant |-> time_remaining_minus(now, remaining, 1)],
     [warning |-> [kind |-> "RestartingNow"],
      instant |-> time_remaining(now, remaining)] >>

\* the statements of the arm Warning::RestartingNow, in their order
RestartingNow_stopFirst == <<"stop", "set", "wait">>
RestartingNow == <<"set", "stop", "wait">>

\* the element of `warnings` that the for loop of wait_and_restart is at
Current == warnings(run.now, run.remaining)[timer.i]

\* the position of wait_and_restart after the statement s of an arm:
\* the next statement of the arm, else the next element, else `Ok(())`
TimerAfter(s) ==
  LET arm == IF Current.warning.kind = "Remaining" THEN <<"say">> ELSE RestartingNow
      k == CHOOSE j \in 1..Len(arm) : arm[j] = s
  IN IF k < Len(arm) THEN [timer EXCEPT !.pc = arm[k + 1]]
     ELSE IF timer.i < Len(warnings(run.now, run.remaining))
          THEN [i |-> timer.i + 1, pc |-> "sleep"]
          ELSE [timer EXCEPT !.pc = "return"]

\* run(), lines 59-72: the remaining time, a fresh flag, the new puppet, and
\* the first poll of wait_and_restart, which builds `warnings`
Launch ==
  /\ run.pc = "loop"
  /\ run.launches < MaxLaunches
  /\ LET now == clock
         remaining == next_restart(restart_time, now) - now
     IN run' = [pc |-> IF time_remaining(now, remaining).some THEN "select" ELSE "panicked",
                now |-> now, remaining |-> remaining, launches |-> run.launches + 1,
                via |-> "none", decision |-> "none"]
  /\ restart' = FALSE
  /\ timer' = [i |-> 1, pc |-> "sleep"]
  /\ server' = [alive |-> TRUE, stop |-> FALSE]
  /\ UNCHANGED <<ioVars, parseVars, clock, restart_time>>

\* `finish()?` fails in the next iteration, which has a flag and no server:
\* run() returns the error
LaunchFails ==
  /\ run.pc = "loop"
  /\ run.launches < MaxLaunches
  /\ run' = [run EXCEPT !.pc = "failed", !.via = "finish_err", !.decision = "err"]
  /\ restart' = FALSE
  /\ timer' = [i |-> 1, pc |-> "sleep"]
  /\ server' = [alive |-> FALSE, stop |-> FALSE]
  /\ UNCHANGED <<ioVars, parseVars, clock, restart_time>>

\* `if let Some(instant) = instant` with None
TimerSkip ==
  /\ run.pc = "select"
  /\ timer.pc = "sleep"
  /\ ~Current.instant.some
  /\ timer' = [timer EXCEPT !.i = timer.i + 1]
  /\ UNCHANGED <<ioVars, parseVars, clock, restart_time, run, restart, server>>

\* sleep_until(instant) returns
TimerSleep ==
  /\ run.pc = "select"
  /\ timer.pc = "sleep"
  /\ Current.instant.some
  /\ clock >= Current.instant.val
  /\ timer' = [timer EXCEPT !.pc = IF Current.warning.kind = "Remaining"
                                   THEN "say" ELSE RestartingNow[1]]
  /\ UNCHANGED <<ioVars, parseVars, clock, restart_time, run, restart, server>>

\* command("say .. minutes until server restart") returns Ok
TimerSay ==
  /\ run.pc = "select"
  /\ timer.pc = "say"
  /\ server.alive
  /\ timer' = TimerAfter("say")
  /\ UNCHANGED <<ioVars, parseVars, clock, restart_time, run, restart, server>>

\* restart.set()
TimerSet ==
  /\ run.pc = "select"
  /\ timer.pc = "set"
  /\ restart' = TRUE
  /\ timer' = TimerAfter("set")
  /\ UNCHANGED <<ioVars, parseVars, clock, restart_time, run, server>>

\* command("stop") returns Ok: the line was written to the child
TimerStop ==
  /\ run.pc = "select"
  /\ timer.pc = "stop"
  /\ server.alive
  /\ server' = [server EXCEPT !.stop = TRUE]
  /\ timer' = TimerAfter("stop")
  /\ UNCHANGED <<ioVars, parseVars, clock, restart_time, run, restart>>

\* wait() returns Ok: the child has exited
TimerWait ==
  /\ run.pc = "select"
  /\ timer.pc = "wait"
  /\ ~server.alive
  /\ timer' = TimerAfter("wait")
  /\ UNCHANGED <<ioVars, parseVars, clock, restart_time, run, restart, server>>

\* select!'s first branch with Ok(()): continue
TimerReturns ==
  /\ run.pc = "select"
  /\ timer.pc = "return"
  /\ run' = [run EXCEPT !.pc = "loop", !.via = "timer", !.decision = "continue"]
  /\ UNCHANGED <<ioVars, parseVars, clock, restart_time, restart, timer, server>>

\* command() or wait() returns an error, `?` returns it, and select!'s first
\* branch returns it from run()
TimerFails ==
  /\ run.pc = "select"
  /\ timer.pc \in {"say", "stop", "wait"}
  /\ run' = [run EXCEPT !.pc = "failed", !.via = "timer_err", !.decision = "err"]
  /\ UNCHANGED <<ioVars, parseVars, clock, restart_time, restart, timer, server>>

\* select!'s second branch with Ok(()): start() returns it once the child has
\* exited; restart.get() decides between continue and break
StartOk ==
  /\ run.pc = "select"
  /\ ~server.alive
  /\ run' = [run EXCEPT !.pc = IF restart THEN "loop" ELSE "terminated",
                        !.via = "start_ok",
                        !.decision = IF restart THEN "continue" ELSE "break"]
  /\ UNCHANGED <<ioVars, parseVars, clock, restart_time, restart, timer, server>>

\* select!'s second branch with an error
StartErr ==
  /\ run.pc = "select"
  /\ run' = [run EXCEPT !.pc = "failed", !.via = "start_err", !.decision = "err"]
  /\ UNCHANGED <<ioVars, parseVars, clock, restart_time, restart, timer, server>>

\* the server exits: told to stop, by wait_and_restart or at its console, or
\* by itself
ServerExits ==
  /\ run.pc = "select"
  /\ server.alive
  /\ server' = [server EXCEPT !.alive = FALSE]
  /\ UNCHANGED <<ioVars, parseVars, clock, restart_time, run, restart, timer>>

\* time passes until the instant that wait_and_restart sleeps for
Tick ==
  /\ run.pc = "select"
  /\ timer.pc = "sleep"
  /\ Current.instant.some
  /\ clock < Current.instant.val
  /\ clock' = Current.instant.val
  /\ UNCHANGED <<ioVars, parseVars, restart_time, run, restart, timer, server>>

\* time passes while the arm of a warning runs
Late ==
  /\ run.pc = "select"
  /\ timer.pc \notin {"sleep", "return"}
  /\ clock < Current.instant.val + MaxLate
  /\ clock' = clock + 1
  /\ UNCHANGED <<ioVars, parseVars, restart_time, run, restart, timer, server>>

\* the restart times of day that are tried: midnight, noon, Config::default's
\* 22:00, and the last minute of a day
RestartTimes == {0, 12 * 60, 22 * 60, MinutesPerDay - 1}

\* the instants at which run() is started: around each of these times, on
\* day 0 and at the first midnight
Nows ==
  {t \in UNION {{r - 31, r - 30, r - 1, r, r + 1} : r \in RestartTimes \cup {MinutesPerDay}} :
     t >= 0}

RunInit ==
  /\ IoInit
  /\ line = ""
  /\ stripped = ""
  /\ rule = "strip"
  /\ event = [variant |-> "None"]
  /\ clock \in Nows
  /\ restart_time \in RestartTimes
  /\ run = [pc |-> "loop", now |-> 0, remaining |-> 0, launches |-> 0,
            via |-> "none", decision |-> "none"]
  /\ restart = FALSE
  /\ timer = [i |-> 1, pc |-> "sleep"]
  /\ server = [alive |-> FALSE, stop |-> FALSE]

RunNext ==
  \/ Launch \/ LaunchFails
  \/ TimerSkip \/ TimerSleep \/ TimerSay \/ TimerSet \/ TimerStop \/ TimerWait
  \/ TimerReturns \/ TimerFails
  \/ StartOk \/ StartErr
  \/ ServerExits
  \/ Tick \/ Late

RunSpec == RunInit /\ [][RunNext]_vars

\* C21: restart.set() precedes the write of the scheduled "stop", and every
\* launched server starts with the flag false; so a start() that returns Ok
\* after the scheduled "stop" was written makes the loop continue, and the
\* loop ends with a break only after a start() that returned Ok for a server
\* whose flag was never set (and to which no scheduled "stop" was written).
C21_RestartFlagDecides ==
  /\ server.stop => restart
  /\ (run.pc = "select" /\ timer.i < Len(warnings(run.now, run.remaining))) => ~restart
  /\ (run.via = "start_ok" /\ server.stop) => run.decision = "continue"
  /\ run.pc = "terminated" => run.via = "start_ok" /\ ~restart /\ ~server.stop
  /\ run.decision = "break" <=> run.pc = "terminated"

\* start() returned Ok after the scheduled "stop", and the loop continues
C21_Witness ==
  /\ run.via = "start_ok"
  /\ server.stop
  /\ restart
  /\ run.pc = "loop"
  /\ run.launches = 1

\* C22: for the restart time and the instant `now` of every launch,
\* next_restart(now) is later than now and at most 24 hours later: it is
\* today's restart time if that is still ahead and tomorrow's otherwise; so
\* `remaining` is positive, and the to_std().unwrap() of time_remaining does
\* not panic.
C22_NextRestartAhead ==
  /\ run.pc # "panicked"
  /\ run.launches > 0 =>
       LET next == run.now + run.remaining
           today == (run.now \div MinutesPerDay) * MinutesPerDay + restart_time
       IN /\ run.now < next
          /\ next <= run.now + MinutesPerDay
          /\ next = IF run.now < today THEN today ELSE today + MinutesPerDay
          /\ run.remaining > 0
          /\ to_std(run.remaining).some

\* a server launched at the very minute of the restart time: the next restart
\* is tomorrow's, 24 hours ahead
C22_Witness ==
  /\ run.pc = "select"
  /\ run.now % MinutesPerDay = restart_time
  /\ run.remaining = MinutesPerDay

====
